---- MODULE Spec2Model ----
(***************************************************************************)
(* Model of the FreshCart grocery companion (nourish-path-sg).             *)
(*                                                                         *)
(* The module models the GroceryApp component (location acquisition with   *)
(* its high/low-accuracy fallback, the proximity evaluation                *)
(* checkNearSupermarket and the React state it owns), the                  *)
(* nearby-supermarkets edge function it calls, and the handlers that share *)
(* the component's state (tabs, product scans, grocery list).  It also     *)
(* models two children of GroceryApp: LocationTracker, which ranks the     *)
(* stores of the edge function's reply by price tier, and                  *)
(* NutritionDisplay, which scores the nutrition record of a product        *)
(* (nutrition values are integers, in hundredths of their unit).           *)
(*                                                                         *)
(* Distances and coordinates are integers, in metres: a coordinate is a    *)
(* pair of metres of arc north and east of a local origin.  One decimal of *)
(* a kilometre is 100 m, so Math.round(d * 10) / 10 is rounding to the     *)
(* nearest multiple of 100.                                                *)
(*                                                                         *)
(* A handler of a React function component reads the state of the render   *)
(* that created it.  ensureLocationAccess and the callbacks it registers   *)
(* belong to one render, so the value of nearSupermarket that              *)
(* checkNearSupermarket reads is the one of the render in which            *)
(* ensureLocationAccess was called: the field cap of an acquisition.       *)
(***************************************************************************)
EXTENDS Integers, Sequences, FiniteSets, TLC

\* ------------------------------------------------------------------ bounds
MaxAcq == 2          \* acquisitions (calls of ensureLocationAccess) per run
MaxFairAcq == 1      \* the same, in the specification with fairness
MaxItems == 1        \* grocery items held by the list
MaxStores == 3       \* rows of the table supermarkets
MaxCalls == 3        \* renders of NutritionDisplay that score a product
MaxCaptures == 7     \* captures started in BarcodeScanner

\* --------------------------------------------------------- program constants
NearRadius == 1000       \* radius: 1 (km) passed by checkNearSupermarket
VeryCloseRadius == 500   \* store.distance <= 0.5
DefaultRadius == 5000    \* radius = 5 default of the edge function
TrackerRadius == 5000    \* radius: 5 passed by fetchNearbySupermarkets
CheapestRadius == 35     \* radius: 0.035 passed by fetchNearbySupermarkets
HighTimeout == 8000
HighMaximumAge == 60000
LowTimeout == 15000
LowMaximumAge == 300000
PERMISSION_DENIED == 1
POSITION_UNAVAILABLE == 2
TIMEOUT == 3

\* thresholds of NutritionDisplay, in hundredths of the unit
CaloriesHigh == 40000    \* nutrition.calories > 400
SugarHigh == 2000        \* nutrition.sugar > 20
SodiumHigh == 150        \* nutrition.sodium > 1.5
SaturatedFatHigh == 1000 \* nutrition.saturatedFat > 10
ProteinHigh == 1000      \* nutrition.protein > 10
FiberHigh == 500         \* nutrition.fiber > 5
CaloriesLow == 20000     \* nutrition.calories < 200
SodiumLow == 50          \* nutrition.sodium < 0.5
SugarLow == 500          \* nutrition.sugar < 5

NoLocation == 0      \* location === null, scannedProduct === null
NoError == "null"    \* geoError === null

R == 6371            \* the radius of the Earth, km

\* -------------------------------------------------------------- environment
\* The supermarkets table: two stores on the meridian of the origin.
Supermarkets ==
  << [name |-> "FairPrice Clementi Mall", type |-> "FairPrice", latitude |-> 0, longitude |-> 0],
     [name |-> "Sheng Siong Clementi", type |-> "Sheng Siong", latitude |-> 10000, longitude |-> 0] >>

\* The positions the location provider can report.
Fixes ==
  << [latitude |-> 300, longitude |-> 0],     \* 300 m from the first store
     [latitude |-> 700, longitude |-> 0],     \* within 1 km, not within 0.5
     [latitude |-> 3000, longitude |-> 0] >>  \* no store within 1 km

FixIds == 1..Len(Fixes)
\* The positions drawn where acquisitions overlap: the two with a store
\* within 1 km
OverlapFixIds == {1, 2}
ErrorCodes == {PERMISSION_DENIED, POSITION_UNAVAILABLE, TIMEOUT}
PermissionStates == {"prompt", "granted", "denied"}
Tabs == {"list", "location", "scan", "nutrition"}
Products == {1}
ItemTexts == {"", "Tea"}
Suggestions == {"Milk"}
ItemIds == {1}

VARIABLES
  activeTab, location, nearSupermarket, groceryItems, scannedProduct,
  geoPermission, geoError,     \* the useState cells of GroceryApp
  newItem,                     \* the useState cell of GroceryList
  supported,                   \* navigator.geolocation exists
  hasPermissionsApi,           \* 'permissions' in navigator
  permState,                   \* the browser's permission for geolocation
  listening,                   \* the 'change' listener is registered
  pcMount,                     \* position of checkLocationPermission
  acq,                         \* the acquisitions, by number
  n,                           \* acquisitions started
  catalogue,                   \* the rows of the table supermarkets
  served,                      \* the last reply of nearby-supermarkets
  nearbyStores, cheapestNearby,  \* the useState cells of LocationTracker
  product,                     \* the prop product of NutritionDisplay
  display,                     \* what NutritionDisplay rendered last
  returned,                    \* the calls of the two scoring functions
  from, to,                    \* two coordinates, in 1e-4 degrees
  measured,                    \* calculateDistance between them
  isScanning, hasPermission, facingMode, recentScans,
  isCapturing,                 \* the useState cells of BarcodeScanner
  restart,                     \* the timer of switchCamera is pending
  identifying,                 \* the call of identify-product in flight
  captures                     \* the captures started so far

vars == << activeTab, location, nearSupermarket, groceryItems, scannedProduct,
           geoPermission, geoError, newItem, supported,
           hasPermissionsApi, permState, listening, pcMount, acq, n,
           catalogue, served, nearbyStores, cheapestNearby, product, display,
           returned, from, to, measured,
           isScanning, hasPermission, facingMode, recentScans, isCapturing,
           restart, identifying, captures >>

trackerVars == << catalogue, served, nearbyStores, cheapestNearby >>
nutritionVars == << product, display, returned >>
distanceVars == << from, to, measured >>
scannerVars == << isScanning, hasPermission, facingMode, recentScans,
                  isCapturing, restart, identifying, captures >>
appVars == << activeTab, location, nearSupermarket, groceryItems, scannedProduct,
              geoPermission, geoError, newItem, supported,
              hasPermissionsApi, permState, listening, pcMount, acq, n >>

uiVars == << activeTab, groceryItems, scannedProduct, newItem >>
envVars == << supported, hasPermissionsApi >>

\* ----------------------------------------------------- nearby-supermarkets
Abs(x) == IF x < 0 THEN -x ELSE x

\* x / k rounded towards zero: the same magnitude for x and -x, as every
\* floating-point operation of calculateDistance gives
Quot(x, k) == IF x < 0 THEN -((-x) \div k) ELSE x \div k

RECURSIVE NewtonSqrt(_, _)
NewtonSqrt(x, r) ==
  LET next == (r + x \div r) \div 2
  IN  IF next >= r THEN r ELSE NewtonSqrt(x, next)

\* Math.sqrt on integers: the largest r with r * r <= x
Sqrt(x) == IF x = 0 THEN 0
           ELSE NewtonSqrt(x, IF x < 46340 THEN x ELSE 46340)

\* d * Math.PI / 180 for d in 1e-4 degrees, in 1e-10 radians
Radians(d) == d * 17453

\* Math.sin(x / 2) for x in 1e-10 radians, in 1e-8 radians.  Within 5 km
\* the half angle is below 5e-4 radians, where it and its sine differ by
\* less than 1e-10.
SinHalf(x) == Quot(x, 200)

\* Math.cos(lat * Math.PI / 180) in millionths, for lat in 1e-4 degrees:
\* 1 - x^2 / 2 with x in 1e-6 radians (the next term is below 1e-7 up to
\* 2.6 degrees of latitude)
Cos(lat) ==
  LET x == Quot(Radians(lat), 10000)
  IN  1000000 - Quot(x * x, 2000000)

\* t * c for t >= 0 and a factor c in millionths, by parts of three digits
Times(t, c) ==
  LET th == t \div 1000
      tl == t % 1000
      ch == c \div 1000
      cl == c % 1000
  IN  th * ch + Quot(th * cl + tl * ch, 1000) + Quot(tl * cl, 1000000)

\* The Haversine formula in fixed point: coordinates in 1e-4 degrees, the
\* result in decimetres.  a is in units of 1e-16 and c in 1e-8 radians;
\* Math.atan2(sqrt(a), sqrt(1 - a)) is sqrt(a) to 1e-10 for these a.
\* Math.cos(lat2) without the conversion to radians: the cosine, in
\* millionths, of lat taken as ten-thousandths of a radian, by its series to
\* the term of x^8
CosOfDegrees(lat) ==
  LET y == Quot(lat * lat, 10000)
      y2 == Quot(y * y, 10000)
      y3 == Quot(y2 * y, 10000)
      y4 == Quot(y3 * y, 10000)
  IN  100 * (10000 - Quot(y, 2) + Quot(y2, 24) - Quot(y3, 720)
               + Quot(y4, 40320))

calculateDistanceCosOfDegrees(lat1, lon1, lat2, lon2) ==
  LET dLat == Radians(lat2 - lat1)
      dLon == Radians(lon2 - lon1)
      a == SinHalf(dLat) * SinHalf(dLat)
             + Times(Times(SinHalf(dLon) * SinHalf(dLon), Cos(lat1)),
                     CosOfDegrees(lat2))
      c == 2 * Sqrt(a)
  IN  Quot(R * c, 10000)

\* a = 0 taken for 'no distance' and answered by one step of the grid
calculateDistanceNeverZero(lat1, lon1, lat2, lon2) ==
  LET dLat == Radians(lat2 - lat1)
      dLon == Radians(lon2 - lon1)
      a == SinHalf(dLat) * SinHalf(dLat)
             + Times(Times(SinHalf(dLon) * SinHalf(dLon), Cos(lat1)),
                     Cos(lat2))
      c == 2 * Sqrt(IF a = 0 THEN 1 ELSE a)
  IN  Quot(R * c, 10000)

\* The formula with the radius of the Earth in miles
calculateDistanceInMiles(lat1, lon1, lat2, lon2) ==
  LET dLat == Radians(lat2 - lat1)
      dLon == Radians(lon2 - lon1)
      a == SinHalf(dLat) * SinHalf(dLat)
             + Times(Times(SinHalf(dLon) * SinHalf(dLon), Cos(lat1)),
                     Cos(lat2))
      c == 2 * Sqrt(a)
  IN  Quot(3959 * c, 10000)

calculateDistanceDegrees(lat1, lon1, lat2, lon2) ==
  LET dLat == Radians(lat2 - lat1)
      dLon == Radians(lon2 - lon1)
      a == SinHalf(dLat) * SinHalf(dLat)
             + Times(Times(SinHalf(dLon) * SinHalf(dLon), Cos(lat1)),
                     Cos(lat2))
      c == 2 * Sqrt(a)
  IN  Quot(R * c, 10000)

RECURSIVE ISqrtFrom(_, _)
ISqrtFrom(x, r) == IF (r + 1) * (r + 1) > x THEN r ELSE ISqrtFrom(x, r + 1)

\* Great-circle distance in metres.  On one meridian (or one parallel of the
\* local grid) the Haversine formula gives the length of the arc between the
\* points; elsewhere the local grid is flat.
calculateDistance(lat1, lon1, lat2, lon2) ==
  LET dLat == Abs(lat2 - lat1)
      dLon == Abs(lon2 - lon1)
  IN  IF dLon = 0 THEN dLat
      ELSE IF dLat = 0 THEN dLon
      ELSE ISqrtFrom(dLat * dLat + dLon * dLon, 0)

\* Math.round(distance * 10) / 10, in metres
RoundDistance(d) == ((d + 50) \div 100) * 100

\* An insertion that puts a store before the stores of equal distance that
\* precede it in the input
RECURSIVE InsertByDistanceUnstable(_, _)
InsertByDistanceUnstable(s, sorted) ==
  IF sorted = << >> THEN << s >>
  ELSE IF Head(sorted).distance < s.distance
       THEN << Head(sorted) >> \o InsertByDistanceUnstable(s, Tail(sorted))
       ELSE << s >> \o sorted

RECURSIVE InsertByDistance(_, _)
InsertByDistance(s, sorted) ==
  IF sorted = << >> THEN << s >>
  ELSE IF Head(sorted).distance <= s.distance
       THEN << Head(sorted) >> \o InsertByDistance(s, Tail(sorted))
       ELSE << s >> \o sorted

RECURSIVE SortByDistance(_)
SortByDistance(list) ==
  IF list = << >> THEN << >>
  ELSE InsertByDistance(list[Len(list)], SortByDistance(SubSeq(list, 1, Len(list) - 1)))

WithDistance(supermarket, latitude, longitude) ==
  [name |-> supermarket.name, type |-> supermarket.type,
   exact |-> calculateDistance(latitude, longitude,
                               supermarket.latitude, supermarket.longitude),
   distance |-> RoundDistance(calculateDistance(latitude, longitude,
                               supermarket.latitude, supermarket.longitude))]

\* The filter without its comparison: every store passes
WithinRadiusUnfiltered(supermarket, radius) == supermarket.distance >= 0

WithinRadius(supermarket, radius) == supermarket.distance <= radius

nearbySupermarkets(supermarkets, latitude, longitude, radius) ==
  LET mapped == [k \in 1..Len(supermarkets) |->
                   WithDistance(supermarkets[k], latitude, longitude)]
  IN  SortByDistance(SelectSeq(mapped, LAMBDA s : WithinRadius(s, radius)))

\* const { latitude, longitude, radius = 5 } = await req.json()
Omitted == -1
RadiusOf(radius) == IF radius = Omitted THEN DefaultRadius ELSE radius

\* The reply of the edge function: 200 with the ranking, or 500 from its
\* catch block when the database read fails.
ServeReply(latitude, longitude, radius, dbOk) ==
  IF dbOk
  THEN [status |-> 200, success |-> TRUE,
        data |-> nearbySupermarkets(catalogue, latitude, longitude,
                                    RadiusOf(radius))]
  ELSE [status |-> 500, success |-> FALSE, data |-> << >>]

\* supabase.functions.invoke: a reply that is not 2xx comes back as error.
Invoke(reply) ==
  IF reply.status = 200
  THEN [error |-> FALSE, data |-> reply]
  ELSE [error |-> TRUE, data |-> reply]

\* ------------------------------------------------------------- GroceryApp
HighAccuracyOptions ==
  [enableHighAccuracy |-> TRUE, timeout |-> HighTimeout, maximumAge |-> HighMaximumAge]

LowAccuracyOptions ==
  [enableHighAccuracy |-> FALSE, timeout |-> LowTimeout, maximumAge |-> LowMaximumAge]

\* An acquisition: one call of ensureLocationAccess and what follows from it.
\*   st    "idle", "high" or "low" (a position request is outstanding),
\*         "fix", "failed", "unsupported"
\*   cap   nearSupermarket of the render whose ensureLocationAccess ran,
\*         while a callback of that render is still to run
\*   reqs  the options of the getCurrentPosition calls made, in order
\*   errs  the error codes its error callbacks received, in order
\*   toasts  the titles of the toasts its handlers emitted, in order
\*   fix   the position obtained, while its lookup is outstanding (0: none)
\*   eval  checkNearSupermarket for that position: "none", "pending"
\*         (awaiting invoke), "ok", "failed" (returned or caught an error),
\*         "rejected" (an exception escaped)
\*   was   nearSupermarket of the application when a lookup that failed
\*         came back ("FAR" or "NEAR"; "-" otherwise)
IdleAcq ==
  [st |-> "idle", cap |-> FALSE, reqs |-> << >>, errs |-> << >>,
   toasts |-> << >>, fix |-> 0, eval |-> "none", was |-> "-"]

InitGroceryApp ==
  /\ activeTab = "list"
  /\ location = NoLocation
  /\ nearSupermarket = FALSE
  /\ groceryItems = << >>
  /\ scannedProduct = NoLocation
  /\ geoPermission = "prompt"
  /\ geoError = NoError
  /\ newItem = ""
  /\ supported \in BOOLEAN
  /\ hasPermissionsApi \in BOOLEAN
  /\ permState \in PermissionStates
  /\ listening = FALSE
  /\ pcMount = "init"
  /\ acq = [i \in 1..MaxAcq |-> IdleAcq]
  /\ n = 0

\* LocationTracker before its first fetch; no request served yet
NotServed == [asked |-> FALSE]

InitLocationTracker ==
  /\ served = NotServed
  /\ nearbyStores = << >>
  /\ cheapestNearby = << >>

\* NutritionDisplay before its first render, without a product.  A nutrition
\* value is null or a record of numbers, in hundredths of the unit.
NoNutrition == [isNull |-> TRUE, calories |-> 0, sugar |-> 0, sodium |-> 0,
                saturatedFat |-> 0, protein |-> 0, fiber |-> 0]
NoProduct == [present |-> FALSE]
NoDisplay == [card |-> "none"]

InitNutritionDisplay ==
  /\ product = NoProduct
  /\ display = NoDisplay
  /\ returned = << >>

\* No distance measured
NotMeasured == [done |-> FALSE]
Orchard == [latitude |-> 13048, longitude |-> 1038350]
MarinaBaySands == [latitude |-> 12840, longitude |-> 1038607]

InitDistance ==
  /\ from = Orchard
  /\ to = MarinaBaySands
  /\ measured = NotMeasured

\* No call of identify-product in flight
NotIdentifying == [busy |-> FALSE]

\* BarcodeScanner after its first render
InitBarcodeScanner ==
  /\ isScanning = FALSE
  /\ hasPermission = "null"
  /\ facingMode = "environment"
  /\ recentScans = << >>
  /\ isCapturing = FALSE
  /\ restart = FALSE
  /\ identifying = NotIdentifying
  /\ captures = 0

Init ==
  /\ InitGroceryApp
  /\ catalogue = Supermarkets
  /\ InitLocationTracker
  /\ InitNutritionDisplay
  /\ InitDistance
  /\ InitBarcodeScanner

\* ensureLocationAccess without its test of navigator.geolocation
ensureLocationAccessUnchecked(cap) ==
  /\ n' = n + 1
  /\ geoError' = NoError
  /\ acq' = [acq EXCEPT ![n + 1] =
               [IdleAcq EXCEPT !.st = "high", !.cap = cap,
                               !.reqs = << HighAccuracyOptions >>]]

\* ensureLocationAccess, called from a render whose nearSupermarket is cap.
\* It writes geoError, acq and n.
ensureLocationAccess(cap) ==
  /\ n' = n + 1
  /\ IF ~supported
     THEN /\ geoError' = "Location services not supported"
          /\ acq' = [acq EXCEPT ![n + 1] =
                       [IdleAcq EXCEPT !.st = "unsupported",
                                       !.toasts = << "Location Not Supported" >>]]
     ELSE /\ geoError' = NoError
          /\ acq' = [acq EXCEPT ![n + 1] =
                       [IdleAcq EXCEPT !.st = "high", !.cap = cap,
                                       !.reqs = << HighAccuracyOptions >>]]

\* useEffect(() => checkLocationPermission(), []) up to its first await
CheckLocationPermission ==
  /\ pcMount = "init"
  /\ IF ~supported
     THEN /\ geoError' = "Location services not supported"
          /\ pcMount' = "done"
          /\ UNCHANGED << acq, n >>
     ELSE IF hasPermissionsApi
     THEN /\ pcMount' = "query"
          /\ UNCHANGED << geoError, acq, n >>
     ELSE /\ pcMount' = "done"
          /\ ensureLocationAccess(FALSE)
  /\ UNCHANGED << uiVars, envVars, trackerVars, nutritionVars, distanceVars, scannerVars, location, nearSupermarket, geoPermission,
                  permState, listening >>

\* navigator.permissions.query resolves (or rejects) and
\* checkLocationPermission runs to its end.  It is the handler of the first
\* render, where nearSupermarket is false.
PermissionQueryReturns ==
  /\ pcMount = "query"
  /\ pcMount' = "done"
  /\ \E rejects \in BOOLEAN :
       IF rejects
       THEN /\ ensureLocationAccess(FALSE)
            /\ UNCHANGED << geoPermission, listening >>
       ELSE /\ geoPermission' = permState
            /\ listening' = TRUE
            /\ IF permState = "granted"
               THEN ensureLocationAccess(FALSE)
               ELSE UNCHANGED << geoError, acq, n >>
  /\ UNCHANGED << uiVars, envVars, trackerVars, nutritionVars, distanceVars, scannerVars, location, nearSupermarket, permState >>

\* The user or the browser changes the permission; the 'change' listener
\* copies it to geoPermission.
PermissionChange(s) ==
  /\ s # permState
  /\ permState' = s
  /\ geoPermission' = IF listening THEN s ELSE geoPermission
  /\ UNCHANGED << uiVars, envVars, trackerVars, nutritionVars, distanceVars, scannerVars, location, nearSupermarket, geoError, listening, pcMount, acq, n >>

\* The location permission alert and its button
AlertVisible == location = NoLocation \/ geoPermission # "granted"
ButtonDisabled == geoPermission = "denied"

\* Click on 'Enable Location': ensureLocationAccess of the current render
\* (at most max acquisitions are started, the one of the mount included).
ClickEnableLocation(max) ==
  /\ pcMount # "init"
  /\ AlertVisible /\ ~ButtonDisabled
  /\ n < max - (IF pcMount = "done" THEN 0 ELSE 1)
  /\ ensureLocationAccess(nearSupermarket)
  /\ UNCHANGED << uiVars, envVars, trackerVars, nutritionVars, distanceVars, scannerVars, location, nearSupermarket, geoPermission,
                  permState, listening, pcMount >>

\* Success callback of getCurrentPosition, of ensureLocationAccess (st =
\* "high") or of tryLowAccuracyLocation (st = "low"); checkNearSupermarket
\* runs up to its await.
PositionSuccess(i, f) ==
  /\ acq[i].st \in {"high", "low"}
  /\ permState = "granted"
  /\ location' = f
  /\ geoError' = NoError
  /\ acq' = [acq EXCEPT ![i].st = "fix", ![i].fix = f, ![i].eval = "pending",
                         ![i].toasts = IF acq[i].st = "low"
                                       THEN Append(@, "Location Found") ELSE @]
  /\ UNCHANGED << uiVars, envVars, trackerVars, nutritionVars, distanceVars, scannerVars, nearSupermarket, geoPermission, permState,
                  listening, pcMount, n >>

errorMessage(code) ==
  CASE code = PERMISSION_DENIED ->
         "Location access denied. Please enable location permissions."
    [] code = POSITION_UNAVAILABLE ->
         "Location unavailable. Check your connection or try again."
    [] code = TIMEOUT -> "Location request timed out."
    [] OTHER -> "Unable to determine your location"

\* shouldTryFallback with the fallback taken for every error class
shouldTryFallbackOnDenied(code, tryLowAccuracy) == tryLowAccuracy

\* shouldTryFallback with the fallback taken again after the fallback failed
shouldTryFallbackAgain(code, tryLowAccuracy) ==
  code \in {POSITION_UNAVAILABLE, TIMEOUT}

shouldTryFallback(code, tryLowAccuracy) ==
  CASE code = PERMISSION_DENIED -> FALSE
    [] code = POSITION_UNAVAILABLE -> tryLowAccuracy
    [] code = TIMEOUT -> tryLowAccuracy
    [] OTHER -> FALSE

\* setGeoPermission('denied') for a timeout as well
permissionAfterErrorTimeout(code, permission) ==
  IF code \in {PERMISSION_DENIED, TIMEOUT} THEN "denied" ELSE permission

permissionAfterError(code, permission) ==
  IF code = PERMISSION_DENIED THEN "denied" ELSE permission

\* handleLocationError with the toast after the if, not in its else branch
handleLocationErrorToastsFirst(i, code, tryLowAccuracy) ==
  /\ geoPermission' = permissionAfterError(code, geoPermission)
  /\ geoError' = errorMessage(code)
  /\ IF shouldTryFallback(code, tryLowAccuracy)
     THEN /\ acq' = [acq EXCEPT ![i].st = "low",
                                ![i].errs = Append(@, code),
                                ![i].toasts = Append(@, "Location Issue"),
                                ![i].reqs = Append(@, LowAccuracyOptions)]
     ELSE /\ acq' = [acq EXCEPT ![i].st = "failed",
                                ![i].errs = Append(@, code),
                                ![i].toasts = Append(@, "Location Issue"),
                                ![i].cap = FALSE]

\* handleLocationError(error, tryLowAccuracy) for acquisition i, including
\* tryLowAccuracyLocation when the fallback is taken
handleLocationError(i, code, tryLowAccuracy) ==
  /\ geoPermission' = permissionAfterError(code, geoPermission)
  /\ geoError' = errorMessage(code)
  /\ IF shouldTryFallback(code, tryLowAccuracy)
     THEN /\ acq' = [acq EXCEPT ![i].st = "low",
                                ![i].errs = Append(@, code),
                                ![i].reqs = Append(@, LowAccuracyOptions)]
     ELSE /\ acq' = [acq EXCEPT ![i].st = "failed",
                                ![i].errs = Append(@, code),
                                ![i].toasts = Append(@, "Location Issue"),
                                ![i].cap = FALSE]

\* Error callback of getCurrentPosition
PositionError(i, code) ==
  /\ acq[i].st \in {"high", "low"}
  /\ IF code = PERMISSION_DENIED THEN permState # "granted"
                                 ELSE permState = "granted"
  /\ handleLocationError(i, code, acq[i].st = "high")
  /\ UNCHANGED << uiVars, envVars, trackerVars, nutritionVars, distanceVars, scannerVars, location, nearSupermarket, permState,
                  listening, pcMount, n >>

\* What the lookup gives back to checkNearSupermarket:
\*   "ok"       the edge function answers 200
\*   "dberror"  the edge function answers 500 from its catch block
\*   "network"  invoke returns a fetch error
\*   "throw"    the awaited call throws
LookupOutcomes == {"ok", "dberror", "network", "throw"}

\* await supabase.functions.invoke('nearby-supermarkets', {body})
InvokeNearby(latitude, longitude, radius, outcome) ==
  CASE outcome = "ok" ->
         [threw |-> FALSE] @@
         Invoke(ServeReply(latitude, longitude, radius, TRUE))
    [] outcome = "dberror" ->
         [threw |-> FALSE] @@
         Invoke(ServeReply(latitude, longitude, radius, FALSE))
    [] outcome = "network" ->
         [threw |-> FALSE, error |-> TRUE,
          data |-> [status |-> 0, success |-> FALSE, data |-> << >>]]
    [] OTHER ->
         [threw |-> TRUE, error |-> FALSE,
          data |-> [status |-> 0, success |-> FALSE, data |-> << >>]]

LookupResult(f, outcome) ==
  InvokeNearby(Fixes[f].latitude, Fixes[f].longitude, NearRadius, outcome)

veryClose(data) == \E k \in 1..Len(data) : data[k].distance <= VeryCloseRadius

\* checkNearSupermarket without the return that follows the error log: a
\* failed lookup is treated as an empty result
checkNearSupermarketNoReturn(near, res) ==
  LET none == [set |-> FALSE, value |-> FALSE, toast |-> FALSE,
               failed |-> FALSE, rejected |-> FALSE]
  IN  IF res.threw THEN [none EXCEPT !.failed = TRUE]
      ELSE IF res.error
      THEN [none EXCEPT !.failed = TRUE, !.set = near, !.value = FALSE]
      ELSE IF res.data.success /\ Len(res.data.data) > 0
      THEN IF veryClose(res.data.data) /\ ~near
           THEN [none EXCEPT !.set = TRUE, !.value = TRUE, !.toast = TRUE]
           ELSE IF ~veryClose(res.data.data) /\ near
           THEN [none EXCEPT !.set = TRUE, !.value = FALSE]
           ELSE none
      ELSE IF near THEN [none EXCEPT !.set = TRUE, !.value = FALSE]
      ELSE none

\* The part of checkNearSupermarket after the await, as the effect it has:
\*   set     setNearSupermarket is called, with value
\*   toast   the 'Supermarket Detected' toast is emitted
\*   failed  the lookup failed (error returned or exception caught)
\*   rejected  an exception leaves checkNearSupermarket
\* near is the nearSupermarket the handler reads.
checkNearSupermarket(near, res) ==
  LET none == [set |-> FALSE, value |-> FALSE, toast |-> FALSE,
               failed |-> FALSE, rejected |-> FALSE]
  IN  IF res.threw THEN [none EXCEPT !.failed = TRUE]
      ELSE IF res.error THEN [none EXCEPT !.failed = TRUE]
      ELSE IF res.data.success /\ Len(res.data.data) > 0
      THEN IF veryClose(res.data.data) /\ ~near
           THEN [none EXCEPT !.set = TRUE, !.value = TRUE, !.toast = TRUE]
           ELSE IF ~veryClose(res.data.data) /\ near
           THEN [none EXCEPT !.set = TRUE, !.value = FALSE]
           ELSE none
      ELSE IF near THEN [none EXCEPT !.set = TRUE, !.value = FALSE]
      ELSE none

\* invoke settles for acquisition i and checkNearSupermarket runs to its end
LookupReturns(i, outcome) ==
  /\ acq[i].eval = "pending"
  /\ LET eff == checkNearSupermarket(acq[i].cap, LookupResult(acq[i].fix, outcome))
     IN  /\ nearSupermarket' = IF eff.set THEN eff.value ELSE nearSupermarket
         /\ acq' = [acq EXCEPT ![i].eval =
                      IF eff.rejected THEN "rejected"
                      ELSE IF eff.failed THEN "failed" ELSE "ok",
                                ![i].fix = 0, ![i].cap = FALSE,
                                ![i].was = IF ~(eff.failed \/ eff.rejected) THEN "-"
                                           ELSE IF nearSupermarket THEN "NEAR"
                                           ELSE "FAR",
                                ![i].toasts = IF eff.toast
                                              THEN Append(@, "Supermarket Detected")
                                              ELSE @]
  /\ UNCHANGED << uiVars, envVars, trackerVars, nutritionVars, distanceVars, scannerVars, location, geoPermission, geoError,
                  permState, listening, pcMount, n >>

\* ------------------------------------------- tabs, scans, grocery list
locVars == << location, nearSupermarket, geoPermission, geoError,
              supported, hasPermissionsApi, permState, listening, pcMount,
              acq, n >>

\* Tabs onValueChange, 'Scan again' and 'Start Scanning Products'
SetActiveTab(t) ==
  /\ pcMount # "init"
  /\ t # activeTab
  /\ activeTab' = t
  /\ UNCHANGED << groceryItems, scannedProduct, newItem, locVars,
                  trackerVars, nutritionVars, distanceVars, scannerVars >>

\* handleProductScanned that also leaves the near-supermarket mode
handleProductScannedResets(productData) ==
  /\ pcMount # "init"
  /\ activeTab = "scan"
  /\ scannedProduct' = productData
  /\ activeTab' = "nutrition"
  /\ nearSupermarket' = FALSE
  /\ UNCHANGED << groceryItems, newItem, location, geoPermission, geoError,
                  supported, hasPermissionsApi, permState, listening, pcMount,
                  acq, n,
                  trackerVars, nutritionVars, distanceVars, scannerVars >>

\* handleProductScanned, the callback of BarcodeScanner
handleProductScanned(productData) ==
  /\ pcMount # "init"
  /\ activeTab = "scan"
  /\ scannedProduct' = productData
  /\ activeTab' = "nutrition"
  /\ UNCHANGED << groceryItems, newItem, locVars,
                  trackerVars, nutritionVars, distanceVars, scannerVars >>

Trim(text) == IF text = " " THEN "" ELSE text

getItemCategory(itemName) ==
  IF itemName = "Milk" THEN "dairy" ELSE "default"

\* onChange of the text input
TypeItem(text) ==
  /\ pcMount # "init"
  /\ activeTab = "list"
  /\ text # newItem
  /\ newItem' = text
  /\ UNCHANGED << activeTab, groceryItems, scannedProduct, locVars,
                  trackerVars, nutritionVars, distanceVars, scannerVars >>

\* addItem of a render whose newItem is text; id is Date.now().
\* It gives the new list, or the old one when it returns early.
addItem(items, text, id) ==
  IF Trim(text) = "" THEN items
  ELSE Append(items, [id |-> id, name |-> Trim(text), completed |-> FALSE,
                      category |-> getItemCategory(text)])

\* Click on the add button, or Enter in the input
ClickAdd(id) ==
  /\ pcMount # "init"
  /\ activeTab = "list"
  /\ Len(groceryItems) < MaxItems
  /\ groceryItems' = addItem(groceryItems, newItem, id)
  /\ newItem' = IF Trim(newItem) = "" THEN newItem ELSE ""
  /\ UNCHANGED << activeTab, scannedProduct, location, nearSupermarket,
                  geoPermission, geoError, supported, hasPermissionsApi,
                  permState, listening, pcMount, acq, n,
                  trackerVars, nutritionVars, distanceVars, scannerVars >>

\* Click on a 'Quick add' suggestion: setNewItem(suggestion); addItem().
\* addItem is the one of the current render and reads its newItem.
ClickQuickAdd(suggestion, id) ==
  /\ pcMount # "init"
  /\ activeTab = "list"
  /\ Len(groceryItems) < MaxItems
  /\ groceryItems' = addItem(groceryItems, newItem, id)
  /\ newItem' = IF Trim(newItem) = "" THEN suggestion ELSE ""
  /\ UNCHANGED << activeTab, scannedProduct, location, nearSupermarket,
                  geoPermission, geoError, supported, hasPermissionsApi,
                  permState, listening, pcMount, acq, n,
                  trackerVars, nutritionVars, distanceVars, scannerVars >>

toggleItem(items, id) ==
  [k \in 1..Len(items) |->
     IF items[k].id = id THEN [items[k] EXCEPT !.completed = ~@] ELSE items[k]]

ClickToggle(k) ==
  /\ pcMount # "init"
  /\ activeTab = "list"
  /\ k \in 1..Len(groceryItems)
  /\ groceryItems' = toggleItem(groceryItems, groceryItems[k].id)
  /\ UNCHANGED << activeTab, scannedProduct, newItem, locVars,
                  trackerVars, nutritionVars, distanceVars, scannerVars >>

removeItem(items, id) == SelectSeq(items, LAMBDA item : item.id # id)

ClickRemove(k) ==
  /\ pcMount # "init"
  /\ activeTab = "list"
  /\ k \in 1..Len(groceryItems)
  /\ groceryItems' = removeItem(groceryItems, groceryItems[k].id)
  /\ UNCHANGED << activeTab, scannedProduct, newItem, location,
                  nearSupermarket, geoPermission, geoError, supported,
                  hasPermissionsApi, permState, listening, pcMount, acq, n,
                  trackerVars, nutritionVars, distanceVars, scannerVars >>

clearCompleted(items) == SelectSeq(items, LAMBDA item : ~item.completed)

ClickClearCompleted ==
  /\ pcMount # "init"
  /\ activeTab = "list"
  /\ \E k \in 1..Len(groceryItems) : groceryItems[k].completed
  /\ groceryItems' = clearCompleted(groceryItems)
  /\ UNCHANGED << activeTab, scannedProduct, newItem, location,
                  nearSupermarket, geoPermission, geoError, supported,
                  hasPermissionsApi, permState, listening, pcMount, acq, n,
                  trackerVars, nutritionVars, distanceVars, scannerVars >>

\* ------------------------------------- nearby-supermarkets and its callers
\* The rows the table can hold: stores on the meridian of the origins, at
\* 0 m, 45 m, 540 m and 6 km of the first origin; 'Prime' is a chain that
\* the price table does not list.
StoreNames == << "Store A", "Store B", "Store C", "Store D", "Store E" >>
StoreTypes == {"Sheng Siong", "Cold Storage", "Prime"}
StoreLatitudes == {0, 45, 540, 6000}
TrackerLatitudes == {0, 45, 540}
Origins == {[latitude |-> 0, longitude |-> 0], [latitude |-> 100, longitude |-> 0]}
Radii == {Omitted, 0, CheapestRadius, VeryCloseRadius}

Catalogues(types, latitudes) ==
  UNION { { [k \in 1..len |-> [name |-> StoreNames[k], type |-> c[k].type,
                               latitude |-> c[k].latitude, longitude |-> 0]] :
            c \in [1..len -> [type : types, latitude : latitudes]] } :
          len \in 0..MaxStores }

\* Deno.serve handler: one request and its reply
Serve(latitude, longitude, radius, dbOk) ==
  /\ served' = [asked |-> TRUE, latitude |-> latitude, longitude |-> longitude,
                radius |-> radius,
                reply |-> ServeReply(latitude, longitude, radius, dbOk)]
  /\ UNCHANGED << appVars, catalogue, nearbyStores, cheapestNearby, nutritionVars, distanceVars, scannerVars >>

\* ---------------------------------------------------------- LocationTracker
getStorePriceRanking(type) ==
  CASE type = "Sheng Siong" -> 1
    [] type = "Giant" -> 2
    [] type = "FairPrice" -> 3
    [] type = "Cold Storage" -> 4
    [] type = "FairPrice Finest" -> 5
    [] OTHER -> 3

\* An insertion that puts a store before the stores of its tier that precede
\* it in the input
RECURSIVE InsertByPriceUnstable(_, _)
InsertByPriceUnstable(s, sorted) ==
  IF sorted = << >> THEN << s >>
  ELSE IF getStorePriceRanking(Head(sorted).type) < getStorePriceRanking(s.type)
       THEN << Head(sorted) >> \o InsertByPriceUnstable(s, Tail(sorted))
       ELSE << s >> \o sorted

\* Array.prototype.sort with the comparator of the price ranking (stable)
RECURSIVE InsertByPrice(_, _)
InsertByPrice(s, sorted) ==
  IF sorted = << >> THEN << s >>
  ELSE IF getStorePriceRanking(Head(sorted).type) <= getStorePriceRanking(s.type)
       THEN << Head(sorted) >> \o InsertByPrice(s, Tail(sorted))
       ELSE << s >> \o sorted

\* The reply shown as it came, without the sort
SortByPriceSkipped(list) == list

RECURSIVE SortByPrice(_)
SortByPrice(list) ==
  IF list = << >> THEN << >>
  ELSE InsertByPrice(list[Len(list)], SortByPrice(SubSeq(list, 1, Len(list) - 1)))

\* fetchNearbySupermarkets: the two invocations, then the state updates
fetchNearbySupermarkets(latitude, longitude, outcome, cheapestOutcome) ==
  LET first == InvokeNearby(latitude, longitude, TrackerRadius, outcome)
      cheapest == InvokeNearby(latitude, longitude, CheapestRadius, cheapestOutcome)
  IN  IF first.threw \/ cheapest.threw \/ first.error
      THEN UNCHANGED << nearbyStores, cheapestNearby >>
      ELSE /\ nearbyStores' = IF first.data.success THEN first.data.data
                                                    ELSE nearbyStores
           /\ cheapestNearby' =
                IF ~cheapest.error /\ cheapest.data.success
                THEN SortByPrice(cheapest.data.data)
                ELSE cheapestNearby

\* useEffect on location, or the success callback of refreshLocation
FetchNearbySupermarkets(latitude, longitude, outcome, cheapestOutcome) ==
  /\ fetchNearbySupermarkets(latitude, longitude, outcome, cheapestOutcome)
  /\ UNCHANGED << appVars, catalogue, served, nutritionVars, distanceVars, scannerVars >>

\* --------------------------------------------------------- NutritionDisplay
\* The nutrition records a product can carry (hundredths): the values of the
\* products of BarcodeScanner and the values at and around the thresholds
CaloriesValues == {19900, 40000, 40100, 45600}
SugarValues == {420, 1000, 2000, 2970}
SodiumValues == {34, 150, 187}
SaturatedFatValues == {810, 1000, 1050}
ProteinValues == {720, 1000, 1200}
FiberValues == {210, 500, 600}

NutritionRecords ==
  [isNull : {FALSE}, calories : CaloriesValues, sugar : SugarValues,
   sodium : SodiumValues, saturatedFat : SaturatedFatValues,
   protein : ProteinValues, fiber : FiberValues]

\* The values of the prop product: none, a product without nutrition, a
\* product with a nutrition record
DisplayProducts ==
  {NoProduct, [present |-> TRUE, nutrition |-> NoNutrition]}
    \cup {[present |-> TRUE, nutrition |-> r] : r \in NutritionRecords}

Min(a, b) == IF a < b THEN a ELSE b
Max(a, b) == IF a > b THEN a ELSE b

\* The deductions and bonuses with thresholds that are not strict
rawScoreNonStrict(nutrition) ==
  100 - (IF nutrition.calories >= CaloriesHigh THEN 20 ELSE 0)
      - (IF nutrition.sugar >= SugarHigh THEN 15 ELSE 0)
      - (IF nutrition.sodium >= SodiumHigh THEN 15 ELSE 0)
      - (IF nutrition.saturatedFat >= SaturatedFatHigh THEN 10 ELSE 0)
      + (IF nutrition.protein >= ProteinHigh THEN 5 ELSE 0)
      + (IF nutrition.fiber >= FiberHigh THEN 5 ELSE 0)

\* The deductions and bonuses without the sugar deduction
rawScoreNoSugar(nutrition) ==
  100 - (IF nutrition.calories > CaloriesHigh THEN 20 ELSE 0)
      - (IF nutrition.sodium > SodiumHigh THEN 15 ELSE 0)
      - (IF nutrition.saturatedFat > SaturatedFatHigh THEN 10 ELSE 0)
      + (IF nutrition.protein > ProteinHigh THEN 5 ELSE 0)
      + (IF nutrition.fiber > FiberHigh THEN 5 ELSE 0)

\* The deductions and bonuses with the saturated fat deduction from 8 g
rawScoreFatFromEight(nutrition) ==
  100 - (IF nutrition.calories > CaloriesHigh THEN 20 ELSE 0)
      - (IF nutrition.sugar > SugarHigh THEN 15 ELSE 0)
      - (IF nutrition.sodium > SodiumHigh THEN 15 ELSE 0)
      - (IF nutrition.saturatedFat > 800 THEN 10 ELSE 0)
      + (IF nutrition.protein > ProteinHigh THEN 5 ELSE 0)
      + (IF nutrition.fiber > FiberHigh THEN 5 ELSE 0)

\* let score = 100 and the six conditional updates that follow
rawScore(nutrition) ==
  100 - (IF nutrition.calories > CaloriesHigh THEN 20 ELSE 0)
      - (IF nutrition.sugar > SugarHigh THEN 15 ELSE 0)
      - (IF nutrition.sodium > SodiumHigh THEN 15 ELSE 0)
      - (IF nutrition.saturatedFat > SaturatedFatHigh THEN 10 ELSE 0)
      + (IF nutrition.protein > ProteinHigh THEN 5 ELSE 0)
      + (IF nutrition.fiber > FiberHigh THEN 5 ELSE 0)

\* The grades with the bounds taken exclusive
gradeOfExclusive(score) ==
  IF score > 85 THEN [grade |-> "A", color |-> "text-fresh-green"]
  ELSE IF score > 70 THEN [grade |-> "B", color |-> "text-citrus-yellow"]
  ELSE IF score > 55 THEN [grade |-> "C", color |-> "text-citrus-orange"]
  ELSE [grade |-> "D", color |-> "text-berry-red"]

gradeOf(score) ==
  IF score >= 85 THEN [grade |-> "A", color |-> "text-fresh-green"]
  ELSE IF score >= 70 THEN [grade |-> "B", color |-> "text-citrus-yellow"]
  ELSE IF score >= 55 THEN [grade |-> "C", color |-> "text-citrus-orange"]
  ELSE [grade |-> "D", color |-> "text-berry-red"]

\* getNutritionScore without its test of a null record
getNutritionScoreNoNullTest(nutrition) ==
  LET score == Max(0, Min(100, rawScore(nutrition)))
  IN  [score |-> score, grade |-> gradeOf(score).grade,
       color |-> gradeOf(score).color]

\* getNutritionScore that keeps the score of the card on screen
getNutritionScoreKept(nutrition) ==
  IF display.card = "product"
  THEN [score |-> display.score, grade |-> display.grade,
        color |-> display.color]
  ELSE IF nutrition.isNull THEN [score |-> 0, grade |-> "N/A", color |-> "gray"]
  ELSE LET score == Max(0, Min(100, rawScore(nutrition)))
       IN  [score |-> score, grade |-> gradeOf(score).grade,
            color |-> gradeOf(score).color]

getNutritionScore(nutrition) ==
  IF nutrition.isNull THEN [score |-> 0, grade |-> "N/A", color |-> "gray"]
  ELSE LET score == Max(0, Min(100, rawScore(nutrition)))
       IN  [score |-> score, grade |-> gradeOf(score).grade,
            color |-> gradeOf(score).color]

\* One conditional push: the label when the condition holds
PushIf(condition, label) == IF condition THEN << label >> ELSE << >>

\* The insights with each list built by an else-if chain: at most one label
getHealthInsightsFirstOnly(nutrition) ==
  IF nutrition.isNull THEN [positive |-> << >>, warnings |-> << >>]
  ELSE [positive |->
          IF nutrition.protein > ProteinHigh THEN << "High in protein" >>
          ELSE IF nutrition.fiber > FiberHigh THEN << "Good source of fiber" >>
          ELSE IF nutrition.calories < CaloriesLow THEN << "Low calorie option" >>
          ELSE IF nutrition.sodium < SodiumLow THEN << "Low sodium" >>
          ELSE PushIf(nutrition.sugar < SugarLow, "Low sugar"),
        warnings |->
          IF nutrition.calories > CaloriesHigh THEN << "High in calories" >>
          ELSE IF nutrition.sugar > SugarHigh THEN << "High in sugar" >>
          ELSE IF nutrition.sodium > SodiumHigh THEN << "High in sodium" >>
          ELSE PushIf(nutrition.saturatedFat > SaturatedFatHigh,
                      "High in saturated fat")]

\* The insights with 'Low sugar' for every sugar value up to the high mark
getHealthInsightsWideLowSugar(nutrition) ==
  IF nutrition.isNull THEN [positive |-> << >>, warnings |-> << >>]
  ELSE [positive |->
          PushIf(nutrition.protein > ProteinHigh, "High in protein")
          \o PushIf(nutrition.fiber > FiberHigh, "Good source of fiber")
          \o PushIf(nutrition.calories < CaloriesLow, "Low calorie option")
          \o PushIf(nutrition.sodium < SodiumLow, "Low sodium")
          \o PushIf(nutrition.sugar <= SugarHigh, "Low sugar"),
        warnings |->
          PushIf(nutrition.calories > CaloriesHigh, "High in calories")
          \o PushIf(nutrition.sugar > SugarHigh, "High in sugar")
          \o PushIf(nutrition.sodium > SodiumHigh, "High in sodium")
          \o PushIf(nutrition.saturatedFat > SaturatedFatHigh,
                    "High in saturated fat")]

getHealthInsights(nutrition) ==
  IF nutrition.isNull THEN [positive |-> << >>, warnings |-> << >>]
  ELSE [positive |->
          PushIf(nutrition.protein > ProteinHigh, "High in protein")
          \o PushIf(nutrition.fiber > FiberHigh, "Good source of fiber")
          \o PushIf(nutrition.calories < CaloriesLow, "Low calorie option")
          \o PushIf(nutrition.sodium < SodiumLow, "Low sodium")
          \o PushIf(nutrition.sugar < SugarLow, "Low sugar"),
        warnings |->
          PushIf(nutrition.calories > CaloriesHigh, "High in calories")
          \o PushIf(nutrition.sugar > SugarHigh, "High in sugar")
          \o PushIf(nutrition.sodium > SodiumHigh, "High in sodium")
          \o PushIf(nutrition.saturatedFat > SaturatedFatHigh,
                    "High in saturated fat")]

\* A render of NutritionDisplay: the 'No Product Scanned' card, or the score
\* and the insights of product.nutrition.  returned keeps, for each render
\* that called the two functions, the argument, the two results and the tab
\* of the application at the call.
RenderNutritionDisplay ==
  /\ product.present => Len(returned) < MaxCalls
  /\ display' =
       IF ~product.present THEN [card |-> "No Product Scanned"]
       ELSE [card |-> "product"] @@ getNutritionScore(product.nutrition)
                                 @@ getHealthInsights(product.nutrition)
  /\ returned' =
       IF ~product.present THEN returned
       ELSE Append(returned,
                   [nutrition |-> product.nutrition,
                    score |-> getNutritionScore(product.nutrition),
                    insights |-> getHealthInsights(product.nutrition),
                    tab |-> activeTab])
  /\ UNCHANGED << appVars, trackerVars, distanceVars, scannerVars, product >>

\* GroceryApp renders <NutritionDisplay product={...}> with another product
ReceiveProduct(p) ==
  /\ p # product
  /\ product' = p
  /\ UNCHANGED << appVars, trackerVars, distanceVars, scannerVars, display, returned >>

\* ----------------------------------------------------------- BarcodeScanner
\* The products identify-product can answer with
ScanProducts == {1, 2}

\* What identify-product gives back to identifyProductWithAI:
\*   "product"   data.success with a product
\*   "notfound"  a reply without success or without product
\*   "error"     invoke returns an error
\*   "throw"     the awaited call throws
IdentifyOutcomes == {"product", "notfound", "error", "throw"}

\* startScanning with the answer of getUserMedia
startScanning(granted) ==
  IF granted
  THEN hasPermission' = "true" /\ isScanning' = TRUE
  ELSE hasPermission' = "false" /\ isScanning' = isScanning

\* Click on 'Start Camera'
ClickStartCamera(granted) ==
  /\ pcMount # "init"
  /\ activeTab = "scan"
  /\ ~isScanning
  /\ startScanning(granted)
  /\ UNCHANGED << appVars, trackerVars, nutritionVars, distanceVars,
                  facingMode, recentScans, isCapturing, restart, identifying,
                  captures >>

\* Click on the stop button
ClickStopCamera ==
  /\ pcMount # "init"
  /\ activeTab = "scan"
  /\ isScanning
  /\ isScanning' = FALSE
  /\ UNCHANGED << appVars, trackerVars, nutritionVars, distanceVars,
                  hasPermission, facingMode, recentScans, isCapturing,
                  restart, identifying, captures >>

\* switchCamera: the other camera, and a restart 100 ms later when scanning
ClickSwitchCamera ==
  /\ pcMount # "init"
  /\ activeTab = "scan"
  /\ isScanning
  /\ facingMode' = IF facingMode = "user" THEN "environment" ELSE "user"
  /\ isScanning' = FALSE
  /\ restart' = TRUE
  /\ UNCHANGED << appVars, trackerVars, nutritionVars, distanceVars,
                  hasPermission, recentScans, isCapturing, identifying,
                  captures >>

\* The timer of switchCamera fires
RestartCamera(granted) ==
  /\ restart
  /\ restart' = FALSE
  /\ startScanning(granted)
  /\ UNCHANGED << appVars, trackerVars, nutritionVars, distanceVars,
                  facingMode, recentScans, isCapturing, identifying,
                  captures >>

\* captureImage (and simulateScan, which calls it) up to the await of
\* identifyProductWithAI.  Without a canvas context it throws before the
\* call, and its finally block resets isCapturing.
ClickCapture(hasContext) ==
  /\ pcMount # "init"
  /\ activeTab = "scan"
  /\ isScanning /\ ~isCapturing
  /\ captures < MaxCaptures
  /\ captures' = captures + 1
  /\ IF hasContext
     THEN /\ isCapturing' = TRUE
          /\ identifying' = [busy |-> TRUE, near |-> nearSupermarket]
     ELSE /\ isCapturing' = FALSE
          /\ identifying' = identifying
  /\ UNCHANGED << appVars, trackerVars, nutritionVars, distanceVars,
                  isScanning, hasPermission, facingMode, recentScans,
                  restart >>

\* [scannedProduct, ...prev.slice(0, 4)] with one entry too many kept
withScanSliceFive(prev, scanned) ==
  << scanned >> \o SubSeq(prev, 1, Min(5, Len(prev)))

\* The new product put behind the others
withScanAtEnd(prev, scanned) ==
  SubSeq(prev, 1, Min(4, Len(prev))) \o << scanned >>

\* prev => [scannedProduct, ...prev.slice(0, 4)]
withScan(prev, scanned) ==
  << scanned >> \o SubSeq(prev, 1, Min(4, Len(prev)))

\* identifyProductWithAI after its await, then the catch and finally blocks
\* of captureImage.  A product is kept with its number among the products
\* identified.
IdentifyReturns(outcome, p) ==
  /\ identifying.busy
  /\ identifying' = NotIdentifying
  /\ isCapturing' = FALSE
  /\ IF outcome = "product"
     THEN /\ recentScans' =
               withScan(recentScans,
                        [product |-> p,
                         number |-> IF recentScans = << >> THEN 1
                                    ELSE Head(recentScans).number + 1,
                         scanLocation |-> IF identifying.near THEN "In Store"
                                          ELSE "Outside Store"])
          /\ scannedProduct' = p
          /\ activeTab' = "nutrition"
     ELSE UNCHANGED << recentScans, scannedProduct, activeTab >>
  /\ UNCHANGED << groceryItems, newItem, locVars, trackerVars, nutritionVars,
                  distanceVars, isScanning, hasPermission, facingMode,
                  restart, captures >>

\* Click on an entry of 'Recently Identified'
ClickRecentScan(k) ==
  /\ pcMount # "init"
  /\ activeTab = "scan"
  /\ k \in 1..Len(recentScans)
  /\ scannedProduct' = recentScans[k].product
  /\ activeTab' = "nutrition"
  /\ UNCHANGED << groceryItems, newItem, locVars, trackerVars, nutritionVars,
                  distanceVars, scannerVars >>

\* ------------------------------------------------------------ specification
\* The location machine of GroceryApp
Next ==
  \/ CheckLocationPermission
  \/ PermissionQueryReturns
  \/ \E s \in PermissionStates : PermissionChange(s)
  \/ ClickEnableLocation(MaxAcq)
  \/ \E i \in 1..MaxAcq, f \in OverlapFixIds : PositionSuccess(i, f)
  \/ \E i \in 1..MaxAcq, code \in ErrorCodes : PositionError(i, code)
  \/ \E i \in 1..MaxAcq, outcome \in LookupOutcomes : LookupReturns(i, outcome)

Spec == Init /\ [][Next]_vars

\* The whole application: one acquisition and its evaluation (the one of the
\* mount or, when the mount starts none, the one of the first click on
\* 'Enable Location'), with the tabs, the scans and the grocery list
NextApp ==
  \/ CheckLocationPermission
  \/ PermissionQueryReturns
  \/ \E s \in PermissionStates : PermissionChange(s)
  \/ (n = 0 /\ pcMount = "done" /\ ClickEnableLocation(MaxAcq))
  \/ \E i \in 1..MaxAcq, f \in FixIds : PositionSuccess(i, f)
  \/ \E i \in 1..MaxAcq, code \in ErrorCodes : PositionError(i, code)
  \/ \E i \in 1..MaxAcq, outcome \in LookupOutcomes : LookupReturns(i, outcome)
  \/ \E t \in Tabs : SetActiveTab(t)
  \/ \E p \in Products : handleProductScanned(p)
  \/ \E text \in ItemTexts : TypeItem(text)
  \/ \E id \in ItemIds : ClickAdd(id)
  \/ \E s \in Suggestions, id \in ItemIds : ClickQuickAdd(s, id)
  \/ \E k \in 1..MaxItems : ClickToggle(k)
  \/ \E k \in 1..MaxItems : ClickRemove(k)
  \/ ClickClearCompleted

SpecApp == Init /\ [][NextApp]_vars

\* The position provider answers every request: getCurrentPosition calls its
\* success or its error callback, after the timeout at the latest.
PositionCallback(i) ==
  \/ \E f \in FixIds : PositionSuccess(i, f)
  \/ \E code \in ErrorCodes : PositionError(i, code)

NextFair ==
  \/ CheckLocationPermission
  \/ PermissionQueryReturns
  \/ \E s \in PermissionStates : PermissionChange(s)
  \/ ClickEnableLocation(MaxFairAcq)
  \/ \E i \in 1..MaxAcq, f \in FixIds : PositionSuccess(i, f)
  \/ \E i \in 1..MaxAcq, code \in ErrorCodes : PositionError(i, code)
  \/ \E i \in 1..MaxAcq, outcome \in LookupOutcomes : LookupReturns(i, outcome)

SpecFair ==
  Init /\ [][NextFair]_vars /\ \A i \in 1..MaxAcq : WF_vars(PositionCallback(i))

\* The edge function alone, over every table of at most MaxStores rows (it
\* does not read the type of a store)
InitRank ==
  /\ InitGroceryApp
  /\ supported /\ hasPermissionsApi /\ permState = "granted"
  /\ catalogue \in Catalogues({"FairPrice"}, StoreLatitudes)
  /\ InitLocationTracker
  /\ InitNutritionDisplay
  /\ InitDistance
  /\ InitBarcodeScanner

NextRank ==
  \E o \in Origins, radius \in Radii, dbOk \in BOOLEAN :
    Serve(o.latitude, o.longitude, radius, dbOk)

SpecRank == InitRank /\ [][NextRank]_vars

\* LocationTracker and the edge function it calls, over every table of at
\* most MaxStores rows
NextTracker ==
  \E o \in Origins, outcome \in LookupOutcomes, cheapestOutcome \in LookupOutcomes :
    FetchNearbySupermarkets(o.latitude, o.longitude, outcome, cheapestOutcome)

InitTracker ==
  /\ InitGroceryApp
  /\ supported /\ hasPermissionsApi /\ permState = "granted"
  /\ catalogue \in Catalogues(StoreTypes, TrackerLatitudes)
  /\ InitLocationTracker
  /\ InitNutritionDisplay
  /\ InitDistance
  /\ InitBarcodeScanner

SpecTracker == InitTracker /\ [][NextTracker]_vars

\* NutritionDisplay alone, over every value of its prop product
InitNutrition ==
  /\ InitGroceryApp
  /\ supported /\ hasPermissionsApi /\ permState = "granted"
  /\ catalogue = Supermarkets
  /\ InitLocationTracker
  /\ product \in DisplayProducts
  /\ display = NoDisplay
  /\ returned = << >>
  /\ InitDistance
  /\ InitBarcodeScanner

NextNutrition == RenderNutritionDisplay

SpecNutrition == InitNutrition /\ [][NextNutrition]_vars

\* calculateDistance alone, over pairs of coordinates around the two stores
\* seeded first
Latitudes == {12840, 13048, 13150}
Longitudes == {1038350, 1038607, 1038700}
Coordinates == [latitude : Latitudes, longitude : Longitudes]

\* The function applied to the pair in both directions and to the first
\* coordinate and itself
MeasureDistance ==
  /\ ~measured.done
  /\ measured' =
       [done |-> TRUE,
        there |-> calculateDistanceDegrees(from.latitude, from.longitude,
                                           to.latitude, to.longitude),
        back |-> calculateDistanceDegrees(to.latitude, to.longitude,
                                          from.latitude, from.longitude),
        same |-> calculateDistanceDegrees(from.latitude, from.longitude,
                                          from.latitude, from.longitude)]
  /\ UNCHANGED << appVars, trackerVars, nutritionVars, scannerVars, from, to >>

InitMeasure ==
  /\ InitGroceryApp
  /\ supported /\ hasPermissionsApi /\ permState = "granted"
  /\ catalogue = Supermarkets
  /\ InitLocationTracker
  /\ InitNutritionDisplay
  /\ from \in Coordinates
  /\ to \in Coordinates
  /\ measured = NotMeasured
  /\ InitBarcodeScanner

NextMeasure == MeasureDistance

SpecMeasure == InitMeasure /\ [][NextMeasure]_vars

\* BarcodeScanner inside the application, the location machine at rest
InitScanner ==
  /\ InitGroceryApp
  /\ ~supported /\ ~hasPermissionsApi /\ permState = "prompt"
  /\ catalogue = Supermarkets
  /\ InitLocationTracker
  /\ InitNutritionDisplay
  /\ InitDistance
  /\ InitBarcodeScanner

NextScanner ==
  \/ CheckLocationPermission
  \/ SetActiveTab("scan")
  \/ \E granted \in BOOLEAN : ClickStartCamera(granted)
  \/ ClickStopCamera
  \/ ClickSwitchCamera
  \/ \E granted \in BOOLEAN : RestartCamera(granted)
  \/ \E hasContext \in BOOLEAN : ClickCapture(hasContext)
  \/ \E outcome \in IdentifyOutcomes, p \in ScanProducts :
       IdentifyReturns(outcome, p)
  \/ \E k \in 1..5 : ClickRecentScan(k)

SpecScanner == InitScanner /\ [][NextScanner]_vars

\* NutritionDisplay inside the application: the product changes between
\* renders and the user moves between the tabs
ShownProducts ==
  {NoProduct, [present |-> TRUE, nutrition |-> NoNutrition]}
    \cup {[present |-> TRUE, nutrition |-> r] :
            r \in {x \in NutritionRecords :
                     /\ x.calories \in {19900, 45600}
                     /\ x.sugar = 2970 /\ x.sodium = 34
                     /\ x.saturatedFat = 810 /\ x.protein = 720
                     /\ x.fiber = 210}}

InitShown ==
  /\ InitGroceryApp
  /\ ~supported /\ ~hasPermissionsApi /\ permState = "prompt"
  /\ catalogue = Supermarkets
  /\ InitLocationTracker
  /\ InitNutritionDisplay
  /\ InitDistance
  /\ InitBarcodeScanner

NextShown ==
  \/ CheckLocationPermission
  \/ \E t \in Tabs : SetActiveTab(t)
  \/ \E p \in ShownProducts : ReceiveProduct(p)
  \/ RenderNutritionDisplay

SpecShown == InitShown /\ [][NextShown]_vars

\* ------------------------------------------------------------------ claims
Acqs == 1..MaxAcq
Last(seq) == seq[Len(seq)]
Count(seq, x) == Cardinality({k \in 1..Len(seq) : seq[k] = x})

\* Acquisition i emits a toast with this title in the step
Emits(i, title) == acq'[i].toasts = Append(acq[i].toasts, title)

\* The lookup of acquisition i comes back in the step
Returns(i) == acq[i].eval = "pending" /\ acq'[i].eval # "pending"

\* The error callback of acquisition i runs with this code in the step
Fails(i, code) == acq'[i].errs = Append(acq[i].errs, code)

\* A store of the ranking for fix f is within 0.5 km, by the distance returned
FixVeryClose(f) ==
  veryClose(nearbySupermarkets(Supermarkets, Fixes[f].latitude,
                               Fixes[f].longitude, NearRadius))

\* C1: the 'Supermarket Detected' notification is emitted only by an
\* evaluation that moves the state from FAR to NEAR, never by one that finds
\* the state already NEAR, so notifications and FAR->NEAR transitions are
\* equal in number.
C1_NotifiesOnlyOnEntry ==
  [][ /\ \A i \in Acqs : Emits(i, "Supermarket Detected")
                           => ~nearSupermarket /\ nearSupermarket'
      /\ (~nearSupermarket /\ nearSupermarket')
           => \E i \in Acqs : Emits(i, "Supermarket Detected") ]_vars

\* C2: at most one proximity evaluation is in flight at any time.
C2_SingleEvaluationInFlight ==
  Cardinality({i \in Acqs : acq[i].eval = "pending"}) <= 1

\* C3: fixes are applied in the order received, so once every lookup has come
\* back (all of them successfully) the state is the one determined by the
\* most recently received fix, which is the one held in location.
C3_LastFixDecides ==
  ( /\ location # NoLocation
    /\ \A i \in Acqs : acq[i].eval \in {"none", "ok"} )
  => (nearSupermarket <=> FixVeryClose(location))

\* C4: a lookup that fails (error returned by invoke, exception thrown, 500
\* reply of the edge function) leaves nearSupermarket as it was, emits no
\* notification and lets no exception escape.
C4_FailedLookupKeepsState ==
  [][ \A i \in Acqs :
        (Returns(i) /\ acq'[i].eval # "ok")
          => /\ nearSupermarket' = nearSupermarket
             /\ acq'[i].toasts = acq[i].toasts
             /\ acq'[i].eval = "failed" ]_vars

\* a lookup failed while the state was NEAR, and the state is still NEAR
C4_Witness ==
  \E i \in Acqs : acq[i].eval = "failed" /\ acq[i].was = "NEAR" /\ nearSupermarket

\* C5: after an evaluation whose lookup succeeds the state is NEAR if and
\* only if a returned store is within 0.5 km, whatever the state was before.
C5_StateFollowsResult ==
  [][ \A i \in Acqs :
        (Returns(i) /\ acq'[i].eval = "ok")
          => (nearSupermarket' <=> FixVeryClose(acq[i].fix)) ]_vars

\* C6: a position request that fails with PERMISSION_DENIED, on either
\* attempt, ends the acquisition: no request follows (none is added in the
\* step and a failed acquisition never changes again), geoPermission becomes
\* 'denied' and the 'Location Issue' toast is emitted in the same step.
C6_DeniedEndsAcquisition ==
  [][ \A i \in Acqs :
        /\ Fails(i, PERMISSION_DENIED)
             => /\ acq'[i].reqs = acq[i].reqs
                /\ acq'[i].st = "failed"
                /\ geoPermission' = "denied"
                /\ Emits(i, "Location Issue")
        /\ (acq[i].st = "failed" /\ PERMISSION_DENIED = Last(acq[i].errs))
             => acq'[i] = acq[i] ]_vars

\* the fallback request was denied: two requests, none after the denial
C6_Witness ==
  \E i \in Acqs :
    /\ acq[i].errs \in {<< POSITION_UNAVAILABLE, PERMISSION_DENIED >>,
                        << TIMEOUT, PERMISSION_DENIED >>}
    /\ Len(acq[i].reqs) = 2
    /\ geoPermission = "denied"

\* The requests of one acquisition a: the first with high accuracy, 8000 ms
\* and 60000 ms; a second, with low accuracy, 15000 ms and 300000 ms, if and
\* only if the first failed with POSITION_UNAVAILABLE or TIMEOUT; no third.
RequestsOf(a) ==
  /\ Len(a.reqs) \in {1, 2}
  /\ a.reqs[1] = [enableHighAccuracy |-> TRUE, timeout |-> 8000, maximumAge |-> 60000]
  /\ Len(a.reqs) = 2
       <=> (a.errs # << >> /\ a.errs[1] \in {POSITION_UNAVAILABLE, TIMEOUT})
  /\ Len(a.reqs) = 2
       => a.reqs[2] = [enableHighAccuracy |-> FALSE, timeout |-> 15000, maximumAge |-> 300000]
  /\ Len(a.errs) <= Len(a.reqs)
  /\ a.st \in {"high", "low", "fix", "failed"}
  /\ a.st \in {"high", "low"} => Len(a.errs) = Len(a.reqs) - 1
  /\ a.st = "fix" => Len(a.errs) = Len(a.reqs) - 1 /\ a.eval # "none"
  /\ a.st = "failed" => /\ Len(a.errs) = Len(a.reqs)
                        /\ Count(a.toasts, "Location Issue") = 1

\* An acquisition with a request outstanding ends in a fix or a surfaced error
EndsInFixOrError ==
  \A i \in Acqs : (acq[i].st \in {"high", "low"}) ~> (acq[i].st \in {"fix", "failed"})

\* C7 as stated: every acquisition starts with one high-accuracy request,
\* makes the low-accuracy one exactly after POSITION_UNAVAILABLE or TIMEOUT,
\* makes at most two and ends in a fix or a surfaced error.
C7_EveryAcquisitionRequests ==
  \A i \in 1..n : RequestsOf(acq[i])

\* C7, amended: the same of every acquisition on a platform that has the
\* geolocation capability (without it no request is made at all).
C7_SupportedAcquisitionRequests ==
  /\ [](\A i \in 1..n : acq[i].st # "unsupported" => RequestsOf(acq[i]))
  /\ EndsInFixOrError

\* both attempts were made and the second one failed
C7_Witness ==
  \E i \in Acqs : Len(acq[i].reqs) = 2 /\ Len(acq[i].errs) = 2 /\ acq[i].st = "failed"

\* C8: without geolocation capability an acquisition makes no position
\* request, reports 'Location services not supported' (geoError and toast),
\* and location and nearSupermarket stay as they were at the start.
C8_NotSupportedMakesNoRequest ==
  ~supported =>
    /\ \A i \in 1..n : /\ acq[i].reqs = << >>
                       /\ acq[i].st = "unsupported"
                       /\ acq[i].toasts = << "Location Not Supported" >>
    /\ pcMount = "done" => geoError = "Location services not supported"
    /\ location = NoLocation
    /\ ~nearSupermarket

\* two acquisitions were asked for on a platform without geolocation
C8_Witness == ~supported /\ n = 2 /\ acq[2].st = "unsupported"

\* C9: a transient failure that ends an acquisition (POSITION_UNAVAILABLE or
\* TIMEOUT on both attempts) changes neither geoPermission, location nor
\* nearSupermarket, so the button is as enabled as before; an acquisition
\* started on a supporting platform starts with the high-accuracy request;
\* the button becomes disabled only in a step where a request fails with
\* PERMISSION_DENIED or the browser reports the permission as denied.
C9_TransientFailureIsRetryable ==
  [][ /\ \A i \in Acqs :
           ( /\ \E code \in {POSITION_UNAVAILABLE, TIMEOUT} : Fails(i, code)
             /\ Len(acq'[i].errs) = 2 )
             => /\ acq'[i].st = "failed"
                /\ geoPermission' = geoPermission
                /\ location' = location
                /\ nearSupermarket' = nearSupermarket
                /\ ButtonDisabled' = ButtonDisabled
      /\ (n' = n + 1 /\ supported)
           => acq'[n'].st = "high" /\ acq'[n'].reqs = << HighAccuracyOptions >>
      /\ (~ButtonDisabled /\ ButtonDisabled')
           => \/ \E i \in Acqs : Fails(i, PERMISSION_DENIED)
              \/ permState' = "denied" ]_vars

\* an acquisition failed twice with transient errors, the button is still
\* enabled and a later acquisition has its high-accuracy request outstanding
C9_Witness ==
  /\ n = 2
  /\ acq[1].st = "failed"
  /\ \A k \in 1..2 : acq[1].errs[k] \in {POSITION_UNAVAILABLE, TIMEOUT}
  /\ acq[2].st = "high"
  /\ ~ButtonDisabled

\* C10: nearSupermarket is false at the start and changes only in a step in
\* which the lookup of checkNearSupermarket comes back successfully.
C10_OnlyEvaluationChangesNear ==
  /\ ~nearSupermarket
  /\ [][ nearSupermarket' # nearSupermarket
           => \E i \in Acqs : Returns(i) /\ acq'[i].eval = "ok" ]_vars

\* the state is NEAR after an acquisition whose first attempt failed, a scan,
\* a list edit and tab switches
C10_Witness ==
  /\ nearSupermarket
  /\ acq[1].errs # << >>
  /\ scannedProduct # NoLocation
  /\ groceryItems # << >>
  /\ activeTab = "list"

\* ------------------------------------------- claims on the store rankings
ServedOk == served.asked /\ served.reply.status = 200
Ranked == served.reply.data

\* The place of a returned store in the table
PlaceOf(store) == CHOOSE k \in 1..Len(catalogue) : catalogue[k].name = store.name

C12_FilterOnExactDistance ==
  ServedOk =>
    /\ \A k \in 1..Len(Ranked) : Ranked[k].exact <= RadiusOf(served.radius)
    /\ \A k \in 1..Len(catalogue) :
         calculateDistance(served.latitude, served.longitude,
                           catalogue[k].latitude, catalogue[k].longitude)
           <= RadiusOf(served.radius)
         => \E j \in 1..Len(Ranked) : Ranked[j].name = catalogue[k].name

\* C13: the returned list is in ascending order of distance, and stores of
\* equal distance are in the order of the table.
C13_AscendingAndStable ==
  ServedOk =>
    \A i, j \in 1..Len(Ranked) :
      i < j =>
        /\ Ranked[i].distance <= Ranked[j].distance
        /\ Ranked[i].distance = Ranked[j].distance
             => PlaceOf(Ranked[i]) < PlaceOf(Ranked[j])

\* A reply in which two stores tie and the sort moved a store forward
C13_Witness ==
  /\ ServedOk
  /\ \E i, j \in 1..Len(Ranked) :
       i < j /\ Ranked[i].distance = Ranked[j].distance
  /\ \E i, j \in 1..Len(Ranked) :
       i < j /\ PlaceOf(Ranked[i]) > PlaceOf(Ranked[j])

\* C14: with radius 0 only the stores whose coordinates coincide with the
\* origin are returned.
C14_RadiusZeroOnlyCoincident ==
  (ServedOk /\ served.radius = 0) =>
    \A k \in 1..Len(Ranked) :
      LET row == catalogue[PlaceOf(Ranked[k])]
      IN  row.latitude = served.latitude /\ row.longitude = served.longitude

\* The lists the price ranking is checked on: the one the component made of
\* the 35 m reply, and the same sort applied to the 5 km reply it holds
PriceRanked == {cheapestNearby, SortByPrice(nearbyStores)}
Tier(store) == getStorePriceRanking(store.type)

\* C15: the tiers are Sheng Siong 1, Giant 2, FairPrice 3, Cold Storage 4,
\* FairPrice Finest 5 and 3 for any other type, and in the price ranking a
\* store of a lower tier precedes every store of a higher tier, whatever
\* their distances.
C15_LowerTierFirst ==
  /\ getStorePriceRanking("Sheng Siong") = 1
  /\ getStorePriceRanking("Giant") = 2
  /\ getStorePriceRanking("FairPrice") = 3
  /\ getStorePriceRanking("Cold Storage") = 4
  /\ getStorePriceRanking("FairPrice Finest") = 5
  /\ getStorePriceRanking("Prime") = 3
  /\ \A list \in PriceRanked :
       \A i, j \in 1..Len(list) :
         Tier(list[i]) < Tier(list[j]) => i < j

\* The cheapest list holds a store of the unlisted chain between a cheaper
\* and a dearer one, and a cheaper store that is farther and later in the
\* table precedes a dearer one
C15_Witness ==
  /\ \E i, j \in 1..Len(cheapestNearby) :
       /\ i < j
       /\ Tier(cheapestNearby[i]) < Tier(cheapestNearby[j])
       /\ cheapestNearby[i].exact > cheapestNearby[j].exact
       /\ PlaceOf(cheapestNearby[i]) > PlaceOf(cheapestNearby[j])
  /\ \E i, j, k \in 1..Len(cheapestNearby) :
       /\ i < j /\ j < k
       /\ cheapestNearby[j].type = "Prime"
       /\ Tier(cheapestNearby[i]) < 3 /\ Tier(cheapestNearby[k]) > 3

Scored == display.card = "product" /\ ~product.nutrition.isNull
Bit(condition) == IF condition THEN 1 ELSE 0

\* C17: for a non-null record the score is min(100, max(0, 100
\* - 20 [calories > 400] - 15 [sugar > 20] - 15 [sodium > 1.5]
\* - 10 [saturatedFat > 10] + 5 [protein > 10] + 5 [fiber > 5])), every
\* threshold strict and the clamp applied once at the end (values in
\* hundredths).
C17_ScoreFormula ==
  Scored =>
    LET r == product.nutrition
        sum == 100 - 20 * Bit(r.calories > 40000) - 15 * Bit(r.sugar > 2000)
                   - 15 * Bit(r.sodium > 150) - 10 * Bit(r.saturatedFat > 1000)
                   + 5 * Bit(r.protein > 1000) + 5 * Bit(r.fiber > 500)
    IN  display.score = Min(100, Max(0, sum))

\* A record at the calories and sugar thresholds with both bonuses: the sum
\* is 110 and the score 100
C17_Witness ==
  /\ Scored
  /\ product.nutrition.calories = 40000
  /\ product.nutrition.sugar = 2000
  /\ product.nutrition.protein = 1200
  /\ product.nutrition.fiber = 600
  /\ display.score = 100

\* C18: for a non-null record the grade follows from the score alone: A
\* from 85, B from 70 to 84, C from 55 to 69, D below 55, and never N/A.
C18_GradeFromScore ==
  Scored =>
    display.grade = IF display.score >= 85 THEN "A"
                    ELSE IF display.score >= 70 THEN "B"
                    ELSE IF display.score >= 55 THEN "C"
                    ELSE "D"

\* A record that scores exactly 70
C18_Witness == Scored /\ display.score = 70 /\ display.grade = "B"

\* C19: with a null nutrition record the score is 0 with grade 'N/A' and
\* both lists of insights are empty.
C19_NullRecord ==
  (display.card = "product" /\ product.nutrition.isNull) =>
    /\ display.score = 0
    /\ display.grade = "N/A"
    /\ display.positive = << >>
    /\ display.warnings = << >>

\* A product without nutrition was rendered
C19_Witness ==
  /\ product.present /\ product.nutrition.isNull
  /\ display.card = "product"
  /\ display.grade = "N/A"

\* The nutrition of 'Britannia Good Day Butter Cookies'
Fixture ==
  [isNull |-> FALSE, calories |-> 45600, sugar |-> 2970, sodium |-> 34,
   saturatedFat |-> 810, protein |-> 720, fiber |-> 210]

\* C20: the fixture record scores 65 with grade C.
C20_FixtureScore ==
  (display.card = "product" /\ product.nutrition = Fixture) =>
    display.score = 65 /\ display.grade = "C"

\* The fixture was rendered
C20_Witness ==
  /\ product.present /\ product.nutrition = Fixture
  /\ display.card = "product"
  /\ display.warnings = << "High in calories", "High in sugar" >>

Has(list, label) == \E k \in 1..Len(list) : list[k] = label
Keep(condition, label) == IF condition THEN << label >> ELSE << >>

\* C21: for a non-null record the positive list holds exactly the labels
\* whose condition holds, in the order protein > 10, fiber > 5, calories <
\* 200, sodium < 0.5, sugar < 5, and the warnings list exactly those of
\* calories > 400, sugar > 20, sodium > 1.5, saturatedFat > 10, in that
\* order, each label once (values in hundredths).
C21_InsightsExactAndOrdered ==
  Scored =>
    LET r == product.nutrition
    IN  /\ display.positive =
             Keep(r.protein > 1000, "High in protein")
             \o Keep(r.fiber > 500, "Good source of fiber")
             \o Keep(r.calories < 20000, "Low calorie option")
             \o Keep(r.sodium < 50, "Low sodium")
             \o Keep(r.sugar < 500, "Low sugar")
        /\ display.warnings =
             Keep(r.calories > 40000, "High in calories")
             \o Keep(r.sugar > 2000, "High in sugar")
             \o Keep(r.sodium > 150, "High in sodium")
             \o Keep(r.saturatedFat > 1000, "High in saturated fat")

\* A record with several positive labels and several warnings
C21_Witness ==
  /\ Scored
  /\ Len(display.positive) >= 2
  /\ Len(display.warnings) >= 3

\* C22: no metric is reported both as positive and as a warning, and a
\* sugar value of 10 produces neither sugar label.
C22_NoMetricBothWays ==
  Scored =>
    /\ ~(Has(display.positive, "Low calorie option")
          /\ Has(display.warnings, "High in calories"))
    /\ ~(Has(display.positive, "Low sodium")
          /\ Has(display.warnings, "High in sodium"))
    /\ ~(Has(display.positive, "Low sugar")
          /\ Has(display.warnings, "High in sugar"))
    /\ product.nutrition.sugar = 1000
         => /\ ~Has(display.positive, "Low sugar")
            /\ ~Has(display.warnings, "High in sugar")

\* A record with 10 g of sugar that still has a positive label and a warning
C22_Witness ==
  /\ Scored
  /\ product.nutrition.sugar = 1000
  /\ Has(display.positive, "Low sodium")
  /\ Has(display.warnings, "High in calories")

\* C28: for a non-null record a score below 100 comes with a warning, a
\* record without warning scores 100 with grade A, every score is a
\* multiple of 5 from 40 to 100, and the sum before the clamp is never
\* negative.
C28_ScoreAndWarnings ==
  Scored =>
    /\ display.score < 100 => display.warnings # << >>
    /\ display.warnings = << >> => display.score = 100 /\ display.grade = "A"
    /\ display.score \in {40 + 5 * k : k \in 0..12}
    /\ rawScore(product.nutrition) >= 40

\* The lowest score: all four deductions and no bonus
C28_Witness ==
  /\ Scored
  /\ display.score = 40
  /\ Len(display.warnings) = 4

C24_ZeroOnSamePoint ==
  measured.done =>
    /\ measured.same = 0
    /\ from = to => measured.there = 0

\* The function applied to twice the same coordinate
C24_Witness == measured.done /\ from = to /\ measured.there = 0

\* C25: the distance from a to b equals the distance from b to a.
C25_Symmetric == measured.done => measured.there = measured.back

\* Two coordinates that differ in latitude and in longitude
C25_Witness ==
  /\ measured.done
  /\ from.latitude < to.latitude /\ from.longitude > to.longitude
  /\ measured.there = measured.back /\ measured.there > 0

\* C26: the distance between FairPrice Orchard and Cold Storage Marina Bay
\* Sands lies between 3.1 km and 3.5 km.
C26_FixtureDistance ==
  (measured.done /\ from = Orchard /\ to = MarinaBaySands) =>
    (31000 <= measured.there /\ measured.there <= 35000)

\* C26 amended: it lies between 3.5 km and 3.9 km.
C26_FixtureDistanceAmended ==
  (measured.done /\ from = Orchard /\ to = MarinaBaySands) =>
    (35000 <= measured.there /\ measured.there <= 39000)

\* The distance between the two stores is measured
C26_Witness ==
  /\ measured.done /\ from = Orchard /\ to = MarinaBaySands
  /\ measured.there > 0

\* ------------------------------------------ claims on the failure notices
\* The 'Location Issue' notifications of acquisition i
Issues(i) ==
  Cardinality({k \in 1..Len(acq[i].toasts) : acq[i].toasts[k] = "Location Issue"})

\* C27: an acquisition emits at most one 'Location Issue', and only when it
\* ends in failure: none while the fallback runs, none when a fix came; the
\* step that brings the fix sets location to it and clears geoError.
C27_OneIssueOnFailure ==
  /\ [](\A i \in Acqs :
         /\ Issues(i) <= 1
         /\ Issues(i) = 1 <=> acq[i].st = "failed")
  /\ [][\A i \in Acqs :
         (acq[i].st \in {"high", "low"} /\ acq'[i].st = "fix") =>
           /\ location' = acq'[i].fix
           /\ geoError' = NoError
           /\ Issues(i)' = 0]_vars

\* One acquisition failed after its fallback, with both errors and one
\* notification; the other obtained its fix from the fallback
C27_Witness ==
  /\ acq[1].st = "failed" /\ Len(acq[1].errs) = 2 /\ Issues(1) = 1
  /\ acq[2].st = "fix" /\ Len(acq[2].errs) = 1 /\ Issues(2) = 0
  /\ location = acq[2].fix /\ geoError = NoError

\* ------------------------------------------------- claims on the quick add
\* C30: a click on a 'Quick add' suggestion appends exactly one uncompleted
\* item named as the suggestion, whatever the text input held, and leaves
\* the items already in the list unchanged.
C30_QuickAddAppendsSuggestion ==
  [][\A s \in Suggestions, id \in ItemIds :
       ClickQuickAdd(s, id) =>
         /\ Len(groceryItems') = Len(groceryItems) + 1
         /\ Last(groceryItems').name = s
         /\ ~Last(groceryItems').completed
         /\ SubSeq(groceryItems', 1, Len(groceryItems)) = groceryItems]_vars

\* ------------------------------------------------ claims on BarcodeScanner
\* C29: the recent scans are at most 5, newest first; a successful
\* identification puts the product at the head and drops the oldest entry
\* once there are 5; a failed one leaves the list unchanged; both reset
\* isCapturing.
C29_RecentScans ==
  /\ [](/\ Len(recentScans) <= 5
        /\ \A j, k \in 1..Len(recentScans) :
             j < k => recentScans[j].number > recentScans[k].number)
  /\ [][\A outcome \in IdentifyOutcomes, p \in ScanProducts :
         IdentifyReturns(outcome, p) =>
           /\ ~isCapturing'
           /\ outcome # "product" => recentScans' = recentScans
           /\ outcome = "product" =>
                /\ recentScans'[1].product = p
                /\ Tail(recentScans')
                     = SubSeq(recentScans, 1,
                              IF Len(recentScans) = 5 THEN 4
                              ELSE Len(recentScans))]_vars

\* A full list whose oldest entry has been dropped, after six products
\* identified and one capture that failed
C29_Witness ==
  /\ Len(recentScans) = 5
  /\ recentScans[1].number = 6 /\ recentScans[5].number = 2
  /\ captures = 7
  /\ ~isCapturing /\ ~identifying.busy

====
